---- MODULE Spec2Model ----
(***************************************************************************)
(* State-machine model of the praan-task backend: the MQTT command         *)
(* dispatcher (mqttService.js), the pre-clean override service             *)
(* (preCleanService.js), the schedule arbiter (schedulerService.js) and    *)
(* the device simulator (device-simulator.js), for one device.             *)
(*                                                                         *)
(* Granularity.  Every handler is an async function; it runs without       *)
(* interruption from one `await` to the next.  One action of the model is  *)
(* one such segment: the code that runs when the handler is resumed,       *)
(* together with the database operation it then awaits (the operation      *)
(* takes effect when it is issued).  Other handlers may run between two    *)
(* segments of the same handler.                                           *)
(***************************************************************************)
EXTENDS Integers, Sequences, FiniteSets, TLC

\* ------------------------------------------------------------------ bounds
\* sendCommand calls issued by the manual-control route in SpecDispatch
MaxManual == 1
\* acknowledgment deliveries after which the broker delivers the same message again
\* (MQTT QoS 1 delivers at least once)
MaxAckDeliveries == 2
\* acknowledgment timeouts that fire, over all commands
MaxTimeouts == 4
\* startPreClean requests
MaxOverrides == 3
\* startPreClean requests next to the schedules (SpecSched)
MaxBlockers == 2
\* deletePreClean requests
MaxDeletes == 1
\* sendCommand calls issued by the override and schedule handlers
MaxCmds == 4
\* last minute of the modelled day
MaxTime == 2
\* schedules of the device
MaxSchedules == 2
\* commands of the override and schedule handlers that are in the pipeline together
MaxInFlight == 1
\* override and schedule handlers that are suspended together
MaxHandlers == 2
\* schedules of a device on which no override is started (SpecEnd)
MaxEndSchedules == 3
\* DELETE and PUT requests on /api/schedule/:scheduleId
MaxAdmin == 1
\* startPreClean requests next to deletions and cancellations (SpecRace)
MaxRaceOverrides == 2
\* startPreClean requests next to the schedules and the expiry timers (SpecRestore)
MaxRestoreOverrides == 1
\* POST /api/preclean requests (SpecModes)
MaxStarts == 2
\* schedules of the device on an unreliable link (SpecFail)
MaxFailSchedules == 1
\* schedules of the device, and PreClean documents of both devices (SpecDevices)
MaxDeviceSchedules == 1
MaxDeviceDocs == 2
\* command messages the simulator receives (SpecSim)
MaxSimCommands == 3
\* schedules and overrides of the device while overrides are cancelled (SpecCancel)
MaxCancelSchedules == 1
MaxCancelOverrides == 1

\* ------------------------------------------------------- program constants
\* this.maxRetries = parseInt(process.env.MAX_RETRIES) || 3
maxRetries == 3

VARIABLES
  cmds,             \* sendCommand calls so far: <<[action, value, source]>>; index = commandId
  cpc,              \* per call: [pc, attempt, ok, outcome, fired, gotAck, gotErr]
  log,              \* CommandLog collection, by commandId
  pendingCommands,  \* keys of the pendingCommands Map
  timers,           \* commandIds whose acknowledgment timeout is armed
  published,        \* per commandId, how many times client.publish accepted it
  lastPublished,    \* commandId of the most recent accepted publish, 0 before the first
  lastRestore,      \* commandId of the most recent accepted publish with source 'restore', or 0
  cmdNet,           \* commandIds with a message on device/<id>/command not yet handled by the device
  ackNet,           \* acknowledgment messages on device/<id>/ack
  ackH,             \* handleAcknowledgment invocations suspended at their first await
  ackSeq,           \* number of acknowledgments received (also the clock of acknowledgedAt)
  deviceStates,     \* DeviceState collection: per deviceId the document, or NoDevice
  sim,              \* deviceState of the simulator: [fanSpeed, powerOn]
  pre,              \* PreClean collection in creation order: index = preCleanId, startedAt order
  preTimers,        \* preCleanIds whose expiry setTimeout is armed
  hs,               \* suspended handlers of preCleanService and schedulerService
  sch,              \* Schedule collection: index = scheduleId
  now,              \* wall clock, in minutes of the day
  trig,             \* cron jobs due at the current minute and not yet run
  activeJobs,       \* the cron jobs created and not stopped, each with its key in the activeJobs Map
  adminRes,         \* the removeSchedule / updateSchedule requests that returned: <<[op, s, result, at]>>
  deletes,          \* number of deletePreClean requests so far
  startRes,         \* what POST /api/preclean answered, in order: <<[mode, result]>>
  blockedCalls      \* handlers whose sendCommand returned { blocked: true }: <<kind, id>>

vars == <<cmds, cpc, log, pendingCommands, timers, published, lastPublished, lastRestore, cmdNet, ackNet,
          ackH, ackSeq, deviceStates, sim, pre, preTimers, hs, sch, now, trig, activeJobs, adminRes,
          deletes, startRes, blockedCalls>>

preVars == <<pre, preTimers>>
schVars == <<sch, now, trig, activeJobs, adminRes>>
ctlVars == <<preVars, hs, schVars, deletes, startRes, blockedCalls>>

pubVars == <<published, lastPublished, lastRestore>>
dispVars == <<cmds, cpc, log, pendingCommands, timers, pubVars>>
netVars == <<cmdNet, ackNet, ackH, ackSeq>>

\* ------------------------------------------------------------------ values
\* the deviceId of the device whose requests, jobs and simulator are modelled,
\* and the deviceIds that have documents in the collections
Device == "d1"
DeviceIds == {"d1", "d2"}

\* DeviceState.findOne({ deviceId }) for that device
devState == deviceStates[Device]

\* the commandId of a command sent to the other device and still pending
OtherCommandId == -1

NoDevice ==
  [exists |-> FALSE, currentFanSpeed |-> 0, powerOn |-> FALSE, scheduleEnded |-> FALSE,
   activeScheduleCount |-> 0]

NoLog == [status |-> "none", retryCount |-> 0, acknowledgedAt |-> 0, deviceResponse |-> "none"]

CmdIds == 1..Len(cmds)

\* number of times commandId c was published
PubCount(c) == published[c]

\* number of acknowledgment timeouts that fired so far, over commands 1..n
RECURSIVE FiredUpTo(_)
FiredUpTo(n) == IF n = 0 THEN 0 ELSE cpc[n].fired + FiredUpTo(n - 1)

\* ------------------------------------------------------------ mqttService
\* retry guard of the timeout callback
CanRetryOffByOne(retryCount) == retryCount <= maxRetries

CanRetry(retryCount) == retryCount < maxRetries

\* A new call record; pc says where the call is suspended.
NewCall(pc, outcome) ==
  [pc |-> pc, attempt |-> 0, ok |-> TRUE, outcome |-> outcome, fired |-> 0, gotAck |-> FALSE,
   gotErr |-> FALSE]

\* sendCommand for a source the coordination policy never blocks (manual,
\* preclean, restore): no await before commandLog.save().
SendUnblocked(action, value, source) ==
  /\ cmds' = Append(cmds, [action |-> action, value |-> value, source |-> source])
  /\ cpc' = Append(cpc, NewCall("saved", "none"))
  /\ log' = Append(log, [NoLog EXCEPT !.status = "pending"])
  /\ published' = Append(published, 0)

\* the command is somewhere between commandLog.save() and the end of handleAcknowledgment
InFlight(c) ==
  \/ cpc[c].pc \in {"saved", "pubcb", "sentwrite", "failwrite", "timeoutwrite"}
  \/ c \in cmdNet
  \/ \E m \in ackNet : m.commandId = c
  \/ \E h \in ackH : h.commandId = c

\* room for one more command of a handler
CanSend ==
  /\ Len(cmds) < MaxCmds
  /\ Cardinality({c \in CmdIds : InFlight(c)}) < MaxInFlight

\* the call can take no further step of its own
Quiescent(c) ==
  \/ cpc[c].pc = "done"
  \/ cpc[c].pc = "armed" /\ c \notin timers

\* The manual control route: mqttService.sendCommand(deviceId, action, value),
\* one request after the other.
ManualCommand ==
  /\ Len(cmds) < MaxManual
  /\ \A c \in CmdIds : Quiescent(c)
  /\ ackH = {}
  /\ \E a \in {"setFanSpeed", "turnOff"}, v \in {0, 4} :
       /\ (a = "turnOff") = (v = 0)
       /\ SendUnblocked(a, v, "manual")
  /\ UNCHANGED <<pendingCommands, timers, lastPublished, lastRestore, netVars, deviceStates, sim, ctlVars>>

\* mqttService.sendCommand(deviceId, 'setFanSpeed', value, source) for a source that
\* is never blocked, with the value its caller computed
SendSetFanSpeed(value) ==
  /\ Len(cmds) < MaxManual
  /\ \A c \in CmdIds : Quiescent(c)
  /\ ackH = {}
  /\ SendUnblocked("setFanSpeed", value, "manual")
  /\ UNCHANGED <<pendingCommands, timers, lastPublished, lastRestore, netVars, deviceStates, sim, ctlVars>>

\* sendCommandWithRetry: client.publish(topic, command, {qos: 1}, callback).
\* The broker either accepts the message or the publish fails.
ClientPublish(c, ok) ==
  /\ published' = IF ok THEN [published EXCEPT ![c] = @ + 1] ELSE published
  /\ lastPublished' = IF ok THEN c ELSE lastPublished
  /\ lastRestore' = IF ok /\ cmds[c].source = "restore" THEN c ELSE lastRestore
  /\ cmdNet' = IF ok THEN cmdNet \cup {c} ELSE cmdNet

\* resumed after `await commandLog.save()`: first sendCommandWithRetry(…, 0)
Publish(c, ok) ==
  /\ cpc[c].pc = "saved"
  /\ ClientPublish(c, ok)
  /\ cpc' = [cpc EXCEPT ![c].pc = "pubcb", ![c].ok = ok]
  /\ UNCHANGED <<cmds, log, pendingCommands, timers, ackNet, ackH, ackSeq, deviceStates, sim, ctlVars>>

\* the publish callback without its `if (err)` branch
PublishCallbackNoErrorCheck(c) ==
  /\ cpc[c].pc = "pubcb"
  /\ log' = [log EXCEPT ![c].status = "sent", ![c].retryCount = cpc[c].attempt]
  /\ cpc' = [cpc EXCEPT ![c].pc = "sentwrite"]
  /\ UNCHANGED <<cmds, pendingCommands, timers, pubVars, netVars, deviceStates, sim, ctlVars>>

\* the publish callback: on error mark 'failed', otherwise mark 'sent'; both await the update
PublishCallback(c) ==
  /\ cpc[c].pc = "pubcb"
  /\ IF cpc[c].ok
       THEN /\ log' = [log EXCEPT ![c].status = "sent", ![c].retryCount = cpc[c].attempt]
            /\ cpc' = [cpc EXCEPT ![c].pc = "sentwrite"]
       ELSE /\ log' = [log EXCEPT ![c].status = "failed", ![c].retryCount = cpc[c].attempt]
            /\ cpc' = [cpc EXCEPT ![c].pc = "failwrite"]
  /\ UNCHANGED <<cmds, pendingCommands, timers, pubVars, netVars, deviceStates, sim, ctlVars>>

\* resumed after the 'sent' update: setTimeout(…, retryTimeout); pendingCommands.set(…)
ArmTimeout(c) ==
  /\ cpc[c].pc = "sentwrite"
  /\ timers' = timers \cup {c}
  /\ pendingCommands' = pendingCommands \cup {c}
  /\ cpc' = [cpc EXCEPT ![c].pc = "armed"]
  /\ UNCHANGED <<cmds, log, pubVars, netVars, deviceStates, sim, ctlVars>>

\* the timeout callback: drop the pending entry, then retry or give up
Timeout(c, ok) ==
  /\ c \in timers
  /\ FiredUpTo(Len(cpc)) < MaxTimeouts
  /\ timers' = timers \ {c}
  /\ pendingCommands' = pendingCommands \ {c}
  /\ IF CanRetry(cpc[c].attempt)
       THEN /\ ClientPublish(c, ok)
            /\ cpc' = [cpc EXCEPT ![c].pc = "pubcb", ![c].ok = ok,
                                  ![c].attempt = @ + 1, ![c].fired = @ + 1]
            /\ log' = log
       ELSE /\ ok
            /\ log' = [log EXCEPT ![c].status = "timeout"]
            /\ cpc' = [cpc EXCEPT ![c].pc = "timeoutwrite", ![c].fired = @ + 1]
            /\ UNCHANGED <<pubVars, cmdNet>>
  /\ UNCHANGED <<cmds, ackNet, ackH, ackSeq, deviceStates, sim, ctlVars>>

\* resumed after the 'failed' / 'timeout' update: reject(err)
Reject(c) ==
  /\ cpc[c].pc \in {"failwrite", "timeoutwrite"}
  /\ cpc' = [cpc EXCEPT ![c].pc = "done", ![c].outcome = "rejected"]
  /\ UNCHANGED <<cmds, log, pendingCommands, timers, pubVars, netVars, deviceStates, sim, ctlVars>>

\* handleAcknowledgment up to its first await: CommandLog.findOneAndUpdate
\* (no upsert: an unknown commandId matches nothing).
AckReceive(m, last) ==
  /\ m \in ackNet
  /\ last \/ ackSeq < MaxAckDeliveries
  /\ ackNet' = IF last THEN ackNet \ {m} ELSE ackNet
  /\ ackSeq' = ackSeq + 1
  /\ LET c == m.commandId IN
       /\ log' = IF c \in CmdIds
                   THEN [log EXCEPT ![c].status =
                                      IF m.status = "success" THEN "acknowledged" ELSE "failed",
                                    ![c].acknowledgedAt = ackSeq + 1,
                                    ![c].deviceResponse = m.status]
                   ELSE log
       /\ ackH' = ackH \cup {[commandId |-> c, deviceId |-> m.deviceId, status |-> m.status,
                              fanSpeed |-> m.fanSpeed, powerOn |-> m.powerOn,
                              terminal |-> c \in CmdIds /\ log[c].status \in {"acknowledged", "timeout"}]}
       /\ cpc' = IF c \in CmdIds /\ m.status = "success"
                      /\ cpc[c].pc \in {"pubcb", "sentwrite", "armed"} /\ cpc[c].ok
                   THEN [cpc EXCEPT ![c].gotAck = TRUE]
                   ELSE IF c \in CmdIds /\ m.status # "success" /\ c \in pendingCommands
                     THEN [cpc EXCEPT ![c].gotErr = TRUE]
                     ELSE cpc
  /\ UNCHANGED <<cmds, pendingCommands, timers, pubVars, cmdNet, deviceStates, sim, ctlVars>>

\* a message on device/<id>/ack whose commandId no sendCommand call issued
UnknownCommandId == 0

UnknownAck ==
  /\ ackSeq < MaxAckDeliveries
  /\ \A m \in ackNet : m.commandId # UnknownCommandId
  /\ \A h \in ackH : h.commandId # UnknownCommandId
  /\ ackNet' = ackNet \cup {[commandId |-> UnknownCommandId, deviceId |-> Device,
                              status |-> "success", fanSpeed |-> 1, powerOn |-> TRUE]}
  /\ UNCHANGED <<dispVars, cmdNet, ackH, ackSeq, deviceStates, sim, ctlVars>>

\* handleAcknowledgment without its DeviceState update
AckFinishNoStateUpdate(h) ==
  /\ h \in ackH
  /\ ackH' = ackH \ {h}
  /\ timers' = IF h.commandId \in pendingCommands THEN timers \ {h.commandId} ELSE timers
  /\ pendingCommands' = pendingCommands \ {h.commandId}
  /\ UNCHANGED <<cmds, cpc, log, pubVars, cmdNet, ackNet, ackSeq, deviceStates, sim, ctlVars>>

\* handleAcknowledgment resumed: clear the pending timeout, then update DeviceState
AckFinish(h) ==
  /\ h \in ackH
  /\ ackH' = ackH \ {h}
  /\ timers' = IF h.commandId \in pendingCommands THEN timers \ {h.commandId} ELSE timers
  /\ pendingCommands' = pendingCommands \ {h.commandId}
  /\ deviceStates' = IF h.status = "success"
                       THEN [deviceStates EXCEPT ![h.deviceId].exists = TRUE,
                                                 ![h.deviceId].currentFanSpeed = h.fanSpeed,
                                                 ![h.deviceId].powerOn = h.powerOn]
                       ELSE deviceStates
  /\ UNCHANGED <<cmds, cpc, log, pubVars, cmdNet, ackNet, ackSeq, sim, ctlVars>>

\* ------------------------------------------------------- device simulator
\* a simulator that rejects nothing
SimAcceptsAll(action, value) == TRUE

\* handleCommand of the simulator followed by sendAcknowledgment
SimAccepts(action, value) ==
  \/ action = "setFanSpeed" /\ value >= 0 /\ value <= 5
  \/ action \in {"turnOff", "turnOn"}

SimAfter(s, action, value) ==
  IF ~SimAccepts(action, value) THEN s
  ELSE IF action = "setFanSpeed" THEN [fanSpeed |-> value, powerOn |-> value > 0]
  ELSE IF action = "turnOff" THEN [fanSpeed |-> 0, powerOn |-> FALSE]
  ELSE [fanSpeed |-> IF value = 0 THEN 2 ELSE value, powerOn |-> TRUE]

handleCommand(msg) ==
  /\ msg \in cmdNet
  /\ cmdNet' = cmdNet \ {msg}
  /\ LET c == msg
         s == SimAfter(sim, cmds[c].action, cmds[c].value)
     IN /\ sim' = s
        /\ ackNet' = ackNet \cup
             {[commandId |-> c, deviceId |-> Device,
               status |-> IF SimAccepts(cmds[c].action, cmds[c].value) THEN "success" ELSE "error",
               fanSpeed |-> s.fanSpeed, powerOn |-> s.powerOn]}
  /\ UNCHANGED <<dispVars, ackH, ackSeq, deviceStates, ctlVars>>

\* the { action, value } of a message on device/<id>/command: the three actions
\* of the protocol and one that is not part of it, values around the range 0..5
CommandBodies ==
  {[action |-> a, value |-> v] :
     a \in {"setFanSpeed", "turnOff", "turnOn", "reset"}, v \in {-1, 0, 3, 5, 6}}

\* an MQTT client publishes a command message on the topic the simulator is
\* subscribed to; no sendCommand call stands behind it
ExternalCommand(body) ==
  /\ Len(cmds) < MaxSimCommands
  /\ cmds' = Append(cmds, [action |-> body.action, value |-> body.value, source |-> "external"])
  /\ cmdNet' = cmdNet \cup {Len(cmds) + 1}
  /\ UNCHANGED <<cpc, log, pendingCommands, timers, pubVars, ackNet, ackH, ackSeq, deviceStates, sim,
                 ctlVars>>

\* ------------------------------------------------------------------ Schedule
\* getActiveSchedulesAtTime: the enabled schedules whose window [startTime, endTime)
\* holds the time t (every schedule is of the current day)
getActiveSchedulesAtTime(t) ==
  {s \in 1..Len(sch) :
     ~sch[s].deleted /\ sch[s].isActive /\ t >= sch[s].startTime /\ t < sch[s].endTime}

\* a schedule document as POST /api/schedules stores it
NewSchedule(startTime, endTime, fanSpeed) ==
  [startTime |-> startTime, endTime |-> endTime, fanSpeed |-> fanSpeed, isActive |-> TRUE,
   lastExecuted |-> 0, executionHistory |-> <<>>, deleted |-> FALSE]

\* the schedules a request may create: a window that starts in the modelled part
\* of the day, and a fan speed
Schedules ==
  {NewSchedule(w[1], w[2], v) :
     w \in {x \in (1..MaxTime) \X (2..MaxTime + 1) : x[1] < x[2]}, v \in {3, 5}}

\* a reduce that keeps the lowest speed
LowestSpeedSchedule(S) ==
  CHOOSE s \in S :
    /\ \A t \in S : sch[t].fanSpeed >= sch[s].fanSpeed
    /\ \A t \in S : sch[t].fanSpeed = sch[s].fanSpeed => s <= t

\* activeSchedules.reduce((max, current) => current.fanSpeed > max.fanSpeed ? current : max):
\* the first schedule, in query order, that no other one exceeds
HighestSpeedSchedule(S) ==
  CHOOSE s \in S :
    /\ \A t \in S : sch[t].fanSpeed <= sch[s].fanSpeed
    /\ \A t \in S : sch[t].fanSpeed = sch[s].fanSpeed => s <= t

\* --------------------------------------------------------- preCleanService
Modes == {"OFF", "AUTO", "MANUAL", "PRE_CLEAN"}

\* a handler suspended at an await, with the locals it holds
Handler(kind, pc, id) ==
  [kind |-> kind, pc |-> pc, id |-> id, mode |-> "", speed |-> 0,
   snap |-> NoDevice, others |-> <<>>, actives |-> {}, idx |-> 0, blockers |-> {}]

\* a query for active pre-cleans that leaves the deviceId out of its filter
ActivePreCleansAnyDevice(deviceId) == {o \in 1..Len(pre) : pre[o].status = "active"}

\* PreClean.find({ deviceId, status: 'active' })
ActivePreCleansOf(deviceId) ==
  {o \in 1..Len(pre) : pre[o].deviceId = deviceId /\ pre[o].status = "active"}

ActivePreCleans == ActivePreCleansOf(Device)

\* the ids of S as PreClean.find returns them without a sort: in insertion order
RECURSIVE NaturalOrder(_)
NaturalOrder(S) ==
  IF S = {} THEN <<>>
  ELSE LET m == CHOOSE x \in S : \A y \in S : x <= y
       IN <<m>> \o NaturalOrder(S \ {m})

\* the ids of S as a sequence, latest startedAt first: .sort({ startedAt: -1 })
SortStartedAtOldestFirst(S) == NaturalOrder(S)

RECURSIVE SortStartedAtDesc(_)
SortStartedAtDesc(S) ==
  IF S = {} THEN <<>>
  ELSE LET m == CHOOSE x \in S : \A y \in S : x >= y
       IN <<m>> \o SortStartedAtDesc(S \ {m})

\* `x || 2` of JavaScript: null, undefined and 0 give 2
OrTwo(x) == IF x = 0 THEN 2 ELSE x

\* The PreClean schema declares no fanSpeed path: the fanSpeed handed to
\* new PreClean({...}) is not part of the stored document and reads back undefined.
StoredFanSpeed(fanSpeed) == 0

\* a start that ignores the mode
StartCommandBoost(mode, fanSpeed) == [action |-> "setFanSpeed", value |-> 5]

\* the command startPreClean sends for a mode (switch (fanMode))
StartCommand(mode, fanSpeed) ==
  CASE mode = "OFF" -> [action |-> "turnOff", value |-> 0]
    [] mode = "AUTO" -> [action |-> "setFanSpeed", value |-> 3]
    [] mode = "MANUAL" -> [action |-> "setFanSpeed", value |-> OrTwo(fanSpeed)]
    [] mode = "PRE_CLEAN" -> [action |-> "setFanSpeed", value |-> 5]

\* the command completePreClean sends to return to a still active pre-clean
RevealCommand(doc) ==
  CASE doc.fanMode = "OFF" -> [action |-> "turnOff", value |-> 0]
    [] doc.fanMode = "AUTO" -> [action |-> "setFanSpeed", value |-> 3]
    [] doc.fanMode = "MANUAL" -> [action |-> "setFanSpeed", value |-> OrTwo(doc.fanSpeed)]
    [] doc.fanMode = "PRE_CLEAN" -> [action |-> "setFanSpeed", value |-> 5]

\* a restore that ignores the saved power state
SavedSpeedCommand(previousState) ==
  [action |-> "setFanSpeed", value |-> previousState.fanSpeed]

\* the command completePreClean sends to return to a saved state
SavedStateCommand(previousState) ==
  IF previousState.powerOn
    THEN [action |-> "setFanSpeed", value |-> previousState.fanSpeed]
    ELSE [action |-> "turnOff", value |-> 0]

\* startPreClean requests not yet persisted
StartsInFlight == {h \in hs : h.kind = "start" /\ h.pc = "found"}

\* POST /api/preclean -> startPreClean, up to `await DeviceState.findOne`
StartPreCleanFind(mode, fanSpeed) ==
  /\ Cardinality(hs) < MaxHandlers
  /\ hs' = hs \cup {[Handler("start", "found", Len(pre) + Cardinality(StartsInFlight) + 1)
                       EXCEPT !.mode = mode, !.speed = fanSpeed, !.snap = devState]}
  /\ UNCHANGED <<dispVars, netVars, deviceStates, sim, preVars, schVars, deletes, startRes, blockedCalls>>

\* a start that does not look at the result of DeviceState.findOne
StartPreCleanSaveUnchecked(h) ==
  /\ h \in hs /\ h.kind = "start" /\ h.pc = "found"
  /\ pre' = Append(pre, [deviceId |-> Device, fanMode |-> h.mode,
                         fanSpeed |-> 0,
                         status |-> "active",
                         previousState |-> [fanSpeed |-> h.snap.currentFanSpeed,
                                            powerOn |-> h.snap.powerOn]])
  /\ hs' = (hs \ {h}) \cup {[h EXCEPT !.pc = "saved", !.id = Len(pre) + 1]}
  /\ UNCHANGED <<dispVars, netVars, deviceStates, sim, preTimers, schVars, deletes, startRes, blockedCalls>>

\* startPreClean resumed: 'Device not found' (the route answers 500 with that message),
\* or new PreClean(...) and `await preClean.save()`
StartPreCleanSave(h) ==
  /\ h \in hs /\ h.kind = "start" /\ h.pc = "found"
  /\ IF ~h.snap.exists
       THEN /\ hs' = hs \ {h}
            /\ pre' = pre
            /\ startRes' = Append(startRes, [mode |-> h.mode, result |-> "Device not found"])
       ELSE /\ pre' = Append(pre, [deviceId |-> Device, fanMode |-> h.mode,
                                   fanSpeed |-> StoredFanSpeed(h.speed),
                                   status |-> "active",
                                   previousState |-> [fanSpeed |-> h.snap.currentFanSpeed,
                                                      powerOn |-> h.snap.powerOn]])
            /\ hs' = (hs \ {h}) \cup {[h EXCEPT !.pc = "saved", !.id = Len(pre) + 1]}
            /\ startRes' = startRes
  /\ UNCHANGED <<dispVars, netVars, deviceStates, sim, preTimers, schVars, deletes, blockedCalls>>

\* startPreClean resumed: sendCommand(..., 'preclean') without await, setTimeout, return
\* (the route answers 200)
StartPreCleanSend(h) ==
  /\ h \in hs /\ h.kind = "start" /\ h.pc = "saved"
  /\ CanSend
  /\ LET cmd == StartCommand(h.mode, h.speed)
     IN SendUnblocked(cmd.action, cmd.value, "preclean")
  /\ preTimers' = preTimers \cup {h.id}
  /\ startRes' = Append(startRes, [mode |-> h.mode, result |-> "ok"])
  /\ hs' = hs \ {h}
  /\ UNCHANGED <<pendingCommands, timers, lastPublished, lastRestore, netVars, deviceStates, sim, pre,
                 schVars, deletes, blockedCalls>>

\* a timer callback that completes the override whatever its status
ExpiryTimerUnchecked(o) ==
  /\ o \in preTimers
  /\ Cardinality(hs) < MaxHandlers
  /\ preTimers' = preTimers \ {o}
  /\ hs' = hs \cup {Handler("expire", "complete", o)}
  /\ UNCHANGED <<dispVars, netVars, deviceStates, sim, pre, schVars, deletes, startRes, blockedCalls>>

\* the expiry timer fires: `await PreClean.findOne({ preCleanId, status: 'active' })`;
\* it goes on to completePreClean only for a document that is still active
ExpiryTimer(o) ==
  /\ o \in preTimers
  /\ Cardinality(hs) < MaxHandlers
  /\ preTimers' = preTimers \ {o}
  /\ hs' = IF pre[o].status = "active"
             THEN hs \cup {Handler("expire", "complete", o)}
             ELSE hs
  /\ UNCHANGED <<dispVars, netVars, deviceStates, sim, pre, schVars, deletes, startRes, blockedCalls>>

\* DELETE /api/preclean/:preCleanId -> deletePreClean, up to `await PreClean.findOne`
DeletePreCleanFind(o) ==
  /\ deletes < MaxDeletes
  /\ Cardinality(hs) < MaxHandlers
  /\ deletes' = deletes + 1
  /\ o \in 1..Len(pre)
  /\ hs' = IF pre[o].status = "deleted"
             THEN hs
             ELSE hs \cup {[Handler("delete", "found", o) EXCEPT !.mode = pre[o].status]}
  /\ UNCHANGED <<dispVars, netVars, deviceStates, sim, preVars, schVars, startRes, blockedCalls>>

\* deletePreClean resumed: an active document is saved as 'cancelled', any other is deleted
DeletePreCleanSave(h) ==
  /\ h \in hs /\ h.kind = "delete" /\ h.pc = "found"
  /\ IF h.mode = "active"
       THEN /\ pre' = [pre EXCEPT ![h.id].status = "cancelled"]
            /\ hs' = (hs \ {h}) \cup {[h EXCEPT !.pc = "complete"]}
       ELSE /\ pre' = [pre EXCEPT ![h.id].status = "deleted"]
            /\ hs' = hs \ {h}
  /\ UNCHANGED <<dispVars, netVars, deviceStates, sim, preTimers, schVars, deletes, startRes, blockedCalls>>

\* POST /api/preclean/cancel -> hasActivePreClean, up to `await PreClean.findActiveByDevice`;
\* one such request at a time
CancelRouteFind ==
  /\ Cardinality(hs) < MaxHandlers
  /\ \A h \in hs : h.kind # "cancel"
  /\ hs' = hs \cup {[Handler("cancel", "has", 0) EXCEPT !.blockers = ActivePreCleans]}
  /\ UNCHANGED <<dispVars, netVars, deviceStates, sim, preVars, schVars, deletes, startRes, blockedCalls>>

\* the route resumed: answer 404 when there was none, otherwise cancelActivePreCleans,
\* up to its `await PreClean.findActiveByDevice(deviceId)`
CancelRouteList(h) ==
  /\ h \in hs /\ h.kind = "cancel" /\ h.pc = "has"
  /\ hs' = IF h.blockers = {}
             THEN hs \ {h}
             ELSE (hs \ {h}) \cup {[h EXCEPT !.pc = "listed",
                                              !.others = NaturalOrder(ActivePreCleans)]}
  /\ UNCHANGED <<dispVars, netVars, deviceStates, sim, preVars, schVars, deletes, startRes, blockedCalls>>

\* the loop of cancelActivePreCleans: `await preClean.markCancelled()` for the next
\* document (save() of a deleted document throws), or after the last one the answer
CancelRouteSave(h) ==
  /\ h \in hs /\ h.kind = "cancel" /\ h.pc = "listed"
  /\ IF h.idx < Len(h.others)
       THEN IF pre[h.others[h.idx + 1]].status = "deleted"
              THEN /\ hs' = hs \ {h}
                   /\ pre' = pre
              ELSE /\ pre' = [pre EXCEPT ![h.others[h.idx + 1]].status = "cancelled"]
                   /\ hs' = (hs \ {h}) \cup {[h EXCEPT !.idx = h.idx + 1]}
       ELSE /\ hs' = hs \ {h}
            /\ pre' = pre
  /\ UNCHANGED <<dispVars, netVars, deviceStates, sim, preTimers, schVars, deletes, startRes, blockedCalls>>

\* completePreClean, up to `await PreClean.find({ status: 'active', _id: { $ne } }).sort(...)`
CompleteFindOthers(h) ==
  /\ h \in hs /\ h.kind \in {"expire", "delete"} /\ h.pc = "complete"
  /\ hs' = (hs \ {h}) \cup
             {[h EXCEPT !.pc = "listed",
                        !.others = SortStartedAtDesc(ActivePreCleansOf(pre[h.id].deviceId) \ {h.id})]}
  /\ UNCHANGED <<dispVars, netVars, deviceStates, sim, preVars, schVars, deletes, startRes, blockedCalls>>

\* completePreClean resumed: status = 'completed' and `await preClean.save()`
CompleteMark(h) ==
  /\ h \in hs /\ h.kind \in {"expire", "delete"} /\ h.pc = "listed"
  /\ pre' = [pre EXCEPT ![h.id].status = "completed"]
  /\ hs' = (hs \ {h}) \cup {[h EXCEPT !.pc = "marked"]}
  /\ UNCHANGED <<dispVars, netVars, deviceStates, sim, preTimers, schVars, deletes, startRes, blockedCalls>>

\* completePreClean resumed: restore to the most recent other active pre-clean,
\* or go on to `await schedulerService.getActiveSchedulesAtTime`
CompleteReveal(h) ==
  /\ h \in hs /\ h.kind \in {"expire", "delete"} /\ h.pc = "marked"
  /\ IF h.others # <<>>
       THEN /\ CanSend
            /\ LET cmd == RevealCommand(pre[h.others[1]])
               IN SendUnblocked(cmd.action, cmd.value, "restore")
            /\ hs' = hs \ {h}
       ELSE /\ hs' = (hs \ {h}) \cup
                       {[h EXCEPT !.pc = "schedules", !.actives = getActiveSchedulesAtTime(now)]}
            /\ UNCHANGED <<cmds, cpc, log, published>>
  /\ UNCHANGED <<pendingCommands, timers, lastPublished, lastRestore, netVars, deviceStates, sim, preVars,
                 schVars, deletes, startRes, blockedCalls>>

\* completePreClean resumed: restore to the highest active schedule or to previousState
CompleteRestore(h) ==
  /\ h \in hs /\ h.kind \in {"expire", "delete"} /\ h.pc = "schedules"
  /\ CanSend
  /\ IF h.actives # {}
       THEN SendUnblocked("setFanSpeed", sch[HighestSpeedSchedule(h.actives)].fanSpeed, "restore")
       ELSE LET cmd == SavedStateCommand(pre[h.id].previousState)
            IN SendUnblocked(cmd.action, cmd.value, "restore")
  /\ hs' = hs \ {h}
  /\ UNCHANGED <<pendingCommands, timers, lastPublished, lastRestore, netVars, deviceStates, sim, preVars,
                 schVars, deletes, startRes, blockedCalls>>

\* Between the publish of a command and the receipt of its acknowledgment the
\* dispatcher and the device touch nothing that a handler of preCleanService or
\* schedulerService reads or writes (CommandLog, the pending entry, the simulator):
\* the handlers are scheduled before or after that stretch.
Settled ==
  /\ \A c \in CmdIds : cpc[c].pc \notin {"pubcb", "sentwrite"}
  /\ cmdNet = {}
  /\ ackNet = {}

\* ------------------------------------------------------- schedulerService
\* the key under which createCronJob stores a job: `${_id}_start_${index}`, and the
\* key removeSchedule looks up: `${scheduleId}_start`
CreatedJobKey(s, at) == <<s, at, "_0">>

LookupJobKey(s, at) == <<s, at, "">>

\* createCronJob(schedule) for a recurrence with one cron expression: a start job and
\* an end job, whose callbacks hold the schedule's id and fanSpeed
createCronJob(s) ==
  {[key |-> CreatedJobKey(s, "start"), s |-> s, at |-> "start",
    time |-> sch[s].startTime, fanSpeed |-> sch[s].fanSpeed],
   [key |-> CreatedJobKey(s, "end"), s |-> s, at |-> "end",
    time |-> sch[s].endTime, fanSpeed |-> sch[s].fanSpeed]}

\* node-cron: a job runs when its minute comes.  The minute advances once the jobs due in the current minute ran and
\* the handlers running in it returned.
Tick ==
  /\ now < MaxTime
  /\ trig = {}
  /\ hs = {}
  /\ now' = now + 1
  /\ trig' = {j \in activeJobs : j.time = now + 1}
  /\ UNCHANGED <<dispVars, netVars, deviceStates, sim, preVars, hs, sch, activeJobs, adminRes,
                 deletes, startRes, blockedCalls>>

\* sendCommand, source 'schedule', action other than turnOff: blocked if a pre-clean is active
IsBlockedNever(activePreCleans) == FALSE

IsBlocked(activePreCleans) == activePreCleans # {}

\* is this schedule outranked among the schedules found active?
\* (the ranking applies only when more than one is active)
OutrankedLowestWins(s, activeSchedules) ==
  /\ Cardinality(activeSchedules) > 1
  /\ s # CHOOSE x \in activeSchedules : \A t \in activeSchedules : sch[x].fanSpeed <= sch[t].fanSpeed

\* a ranking in which a schedule of equal speed outranks too
OutrankedOnTies(s, activeSchedules) ==
  /\ Cardinality(activeSchedules) > 1
  /\ \E x \in activeSchedules \ {s} : sch[x].fanSpeed >= sch[s].fanSpeed

Outranked(s, activeSchedules) ==
  /\ Cardinality(activeSchedules) > 1
  /\ s # HighestSpeedSchedule(activeSchedules)

\* the start job runs executeScheduleStart, up to `await this.getActiveSchedulesAtTime`
ScheduleStartFind(s) ==
  /\ Cardinality(hs) < MaxHandlers
  /\ \E j \in trig :
       /\ j.s = s /\ j.at = "start"
       /\ trig' = trig \ {j}
       /\ hs' = hs \cup {[Handler("schStart", "actives", s)
                            EXCEPT !.actives = getActiveSchedulesAtTime(now),
                                   !.speed = j.fanSpeed]}
  /\ UNCHANGED <<dispVars, netVars, deviceStates, sim, preVars, sch, now, activeJobs, adminRes,
                 deletes, startRes, blockedCalls>>

\* executeScheduleStart resumed: record 'blocked' for an outranked schedule, otherwise
\* call sendCommand(deviceId, 'setFanSpeed', fanSpeed, 'schedule'), which awaits PreClean.find
ScheduleStartDecide(h) ==
  /\ h \in hs /\ h.kind = "schStart" /\ h.pc = "actives"
  /\ IF Outranked(h.id, h.actives)
       THEN /\ sch' = IF sch[h.id].deleted
                        THEN sch
                        ELSE [sch EXCEPT ![h.id].lastExecuted = now,
                                         ![h.id].executionHistory = Append(@, "blocked")]
            /\ hs' = hs \ {h}
       ELSE /\ hs' = (hs \ {h}) \cup {[h EXCEPT !.pc = "check", !.blockers = ActivePreCleans]}
            /\ sch' = sch
  /\ UNCHANGED <<dispVars, netVars, deviceStates, sim, preVars, now, trig, activeJobs, adminRes,
                 deletes, startRes, blockedCalls>>

\* sendCommand resumed after PreClean.find: return { blocked: true } (and the caller
\* returns), or create the CommandLog entry and await commandLog.save()
SendCommandCheck(h) ==
  /\ h \in hs /\ h.kind \in {"schStart", "schEnd"} /\ h.pc = "check"
  /\ IF IsBlocked(h.blockers)
       THEN /\ blockedCalls' = blockedCalls \cup {<<h.kind, h.id>>}
            /\ UNCHANGED <<cmds, cpc, log, published>>
       ELSE /\ CanSend
            /\ SendUnblocked("setFanSpeed", h.speed, "schedule")
            /\ blockedCalls' = blockedCalls
  /\ hs' = hs \ {h}
  /\ UNCHANGED <<pendingCommands, timers, lastPublished, lastRestore, netVars, deviceStates, sim,
                 preVars, schVars, deletes, startRes>>

\* the end job runs executeScheduleEnd, up to `await this.getActiveSchedulesAtTime`
ScheduleEndFind(s) ==
  /\ Cardinality(hs) < MaxHandlers
  /\ \E j \in trig :
       /\ j.s = s /\ j.at = "end"
       /\ trig' = trig \ {j}
       /\ hs' = hs \cup {[Handler("schEnd", "actives", s)
                            EXCEPT !.actives = getActiveSchedulesAtTime(now)]}
  /\ UNCHANGED <<dispVars, netVars, deviceStates, sim, preVars, sch, now, activeJobs, adminRes,
                 deletes, startRes, blockedCalls>>

\* executeScheduleEnd resumed: remainingSchedules, then `await PreClean.find({ status: 'active' })`
ScheduleEndOverrides(h) ==
  /\ h \in hs /\ h.kind = "schEnd" /\ h.pc = "actives"
  /\ hs' = (hs \ {h}) \cup {[h EXCEPT !.pc = "overrides", !.actives = h.actives \ {h.id},
                                    !.others = NaturalOrder(ActivePreCleans)]}
  /\ UNCHANGED <<dispVars, netVars, deviceStates, sim, preVars, schVars, deletes, startRes, blockedCalls>>

\* cancelPreCleanImmediately(preCleanId), up to `await PreClean.findOne({ preCleanId, status: 'active' })`
CancelFind(h, i) ==
  [h EXCEPT !.pc = "cancelfound", !.idx = i,
            !.mode = IF pre[h.others[i]].status = "active" THEN "found" ELSE "missing"]

\* sendCommand(deviceId, 'turnOff', 0, 'schedule'), up to `await DeviceState.findOneAndUpdate`
MarkScheduleEnded == [devState EXCEPT !.exists = TRUE, !.scheduleEnded = TRUE]

\* the branches of executeScheduleEnd: active pre-cleans come first
EndBranchSchedulesFirst(activePreCleans, remainingSchedules) ==
  IF remainingSchedules # {} THEN "switch"
  ELSE IF activePreCleans # <<>> THEN "cancel"
  ELSE "turnOff"

EndBranch(activePreCleans, remainingSchedules) ==
  IF activePreCleans # <<>> THEN "cancel"
  ELSE IF remainingSchedules # {} THEN "switch"
  ELSE "turnOff"

\* executeScheduleEnd resumed with the active pre-cleans: start cancelling them, or switch
\* to the highest remaining schedule, or turn the device off
ScheduleEndBranch(h) ==
  /\ h \in hs /\ h.kind = "schEnd" /\ h.pc = "overrides"
  /\ IF EndBranch(h.others, h.actives) = "cancel"
       THEN /\ hs' = (hs \ {h}) \cup {CancelFind(h, 1)}
            /\ deviceStates' = deviceStates
       ELSE IF EndBranch(h.others, h.actives) = "switch"
         THEN /\ hs' = (hs \ {h}) \cup
                         {[h EXCEPT !.pc = "check",
                                    !.speed = sch[HighestSpeedSchedule(h.actives)].fanSpeed,
                                    !.blockers = ActivePreCleans]}
              /\ deviceStates' = deviceStates
         ELSE /\ hs' = (hs \ {h}) \cup {[h EXCEPT !.pc = "turnoff"]}
              /\ deviceStates' = [deviceStates EXCEPT ![Device] = MarkScheduleEnded]
  /\ UNCHANGED <<dispVars, netVars, sim, preVars, schVars, deletes, startRes, blockedCalls>>

\* cancelPreCleanImmediately resumed: nothing found, or status = 'cancelled' and save()
CancelPreCleanSave(h) ==
  /\ h \in hs /\ h.kind = "schEnd" /\ h.pc = "cancelfound"
  /\ pre' = IF h.mode = "found"
              THEN [pre EXCEPT ![h.others[h.idx]].status = "cancelled"]
              ELSE pre
  /\ hs' = (hs \ {h}) \cup {[h EXCEPT !.pc = "cancelsaved"]}
  /\ UNCHANGED <<dispVars, netVars, deviceStates, sim, preTimers, schVars, deletes, startRes, blockedCalls>>

\* the loop of executeScheduleEnd: the next cancelPreCleanImmediately, or after
\* the last one sendCommand(deviceId, 'turnOff', 0, 'schedule')
CancelNext(h) ==
  /\ h \in hs /\ h.kind = "schEnd" /\ h.pc = "cancelsaved"
  /\ IF h.idx < Len(h.others)
       THEN /\ hs' = (hs \ {h}) \cup {CancelFind(h, h.idx + 1)}
            /\ deviceStates' = deviceStates
       ELSE /\ hs' = (hs \ {h}) \cup {[h EXCEPT !.pc = "turnoff"]}
            /\ deviceStates' = [deviceStates EXCEPT ![Device] = MarkScheduleEnded]
  /\ UNCHANGED <<dispVars, netVars, sim, preVars, schVars, deletes, startRes, blockedCalls>>

\* sendCommand for the schedule's turnOff resumed: CommandLog entry and commandLog.save().
\* The caller stays suspended at `await mqttService.sendCommand(...)`.
SendTurnOff(h) ==
  /\ h \in hs /\ h.kind \in {"schEnd", "remove", "update"} /\ h.pc = "turnoff"
  /\ CanSend
  /\ SendUnblocked("turnOff", 0, "schedule")
  /\ hs' = hs \ {h}
  /\ UNCHANGED <<pendingCommands, timers, lastPublished, lastRestore, netVars, deviceStates, sim,
                 preVars, schVars, deletes, startRes, blockedCalls>>

\* ------------------------------------------- removeSchedule, updateSchedule
\* requests on /api/schedule/:scheduleId so far
AdminRequests == Len(adminRes) + Cardinality({h \in hs : h.kind \in {"remove", "update"}})

\* removeSchedule(scheduleId), up to `await Schedule.findById(scheduleId)`; op says
\* whether the DELETE route or updateSchedule called it
RemoveScheduleFind(op, s, updateData) ==
  /\ AdminRequests < MaxAdmin
  /\ Cardinality(hs) < MaxHandlers
  /\ hs' = hs \cup {[Handler(op, "found", s)
                       EXCEPT !.mode = IF sch[s].deleted THEN "missing" ELSE "found",
                              !.speed = updateData.fanSpeed]}
  /\ UNCHANGED <<dispVars, netVars, deviceStates, sim, preVars, schVars, deletes, startRes, blockedCalls>>

\* removeSchedule resumed: throw 'Schedule not found', or stop and delete the jobs
\* stored under the looked-up keys and `await DeviceState.findOne({ deviceId })`
RemoveScheduleJobs(h) ==
  /\ h \in hs /\ h.kind \in {"remove", "update"} /\ h.pc = "found"
  /\ IF h.mode = "missing"
       THEN /\ adminRes' = Append(adminRes, [op |-> h.kind, s |-> h.id,
                                             result |-> "Schedule not found", at |-> now])
            /\ hs' = hs \ {h}
            /\ activeJobs' = activeJobs
       ELSE /\ activeJobs' = {j \in activeJobs :
                                j.key \notin {LookupJobKey(h.id, "start"), LookupJobKey(h.id, "end")}}
            /\ hs' = (hs \ {h}) \cup {[h EXCEPT !.pc = "state", !.snap = devState]}
            /\ adminRes' = adminRes
  /\ UNCHANGED <<dispVars, netVars, deviceStates, sim, preVars, sch, now, trig, deletes, startRes, blockedCalls>>

\* isCurrentlyActive of removeSchedule (the schedule is of the current day)
IsCurrentlyActive(s) == now >= sch[s].startTime /\ now <= sch[s].endTime

\* removeSchedule resumed after DeviceState.findOne, or after deviceState.save():
\* for a running schedule counted in activeScheduleCount, turn the device off when
\* it was the last one counted, otherwise save the decremented count; then
\* `await Schedule.findByIdAndDelete(scheduleId)`
RemoveScheduleState(h) ==
  /\ h \in hs /\ h.kind \in {"remove", "update"} /\ h.pc \in {"state", "statesaved"}
  /\ IF h.pc = "state" /\ h.snap.activeScheduleCount > 0 /\ IsCurrentlyActive(h.id)
       THEN IF h.snap.activeScheduleCount - 1 = 0
              THEN /\ deviceStates' = [deviceStates EXCEPT ![Device] = MarkScheduleEnded]
                   /\ hs' = (hs \ {h}) \cup {[h EXCEPT !.pc = "turnoff"]}
                   /\ sch' = sch
              ELSE /\ deviceStates' = [deviceStates EXCEPT
                                         ![Device].activeScheduleCount = h.snap.activeScheduleCount - 1]
                   /\ hs' = (hs \ {h}) \cup {[h EXCEPT !.pc = "statesaved"]}
                   /\ sch' = sch
       ELSE /\ sch' = [sch EXCEPT ![h.id].deleted = TRUE]
            /\ hs' = (hs \ {h}) \cup {[h EXCEPT !.pc = "deleted"]}
            /\ deviceStates' = deviceStates
  /\ UNCHANGED <<dispVars, netVars, sim, preVars, now, trig, activeJobs, adminRes,
                 deletes, startRes, blockedCalls>>

\* removeSchedule returns.  The DELETE route answers; updateSchedule goes on to
\* `await Schedule.findByIdAndUpdate(scheduleId, updateData, { new: true })`, which
\* gives null when no document has the id
RemoveScheduleReturn(h) ==
  /\ h \in hs /\ h.kind \in {"remove", "update"} /\ h.pc = "deleted"
  /\ IF h.kind = "remove"
       THEN /\ adminRes' = Append(adminRes, [op |-> "remove", s |-> h.id, result |-> "ok", at |-> now])
            /\ hs' = hs \ {h}
            /\ sch' = sch
       ELSE /\ adminRes' = adminRes
            /\ IF sch[h.id].deleted
                 THEN /\ hs' = (hs \ {h}) \cup {[h EXCEPT !.pc = "updated", !.mode = "null"]}
                      /\ sch' = sch
                 ELSE /\ hs' = (hs \ {h}) \cup {[h EXCEPT !.pc = "updated", !.mode = "doc"]}
                      /\ sch' = [sch EXCEPT ![h.id].fanSpeed = h.speed]
  /\ UNCHANGED <<dispVars, netVars, deviceStates, sim, preVars, now, trig, activeJobs,
                 deletes, startRes, blockedCalls>>

\* updateSchedule resumed: throw 'Schedule not found', or createCronJob(schedule)
\* and return the schedule
UpdateScheduleReturn(h) ==
  /\ h \in hs /\ h.kind = "update" /\ h.pc = "updated"
  /\ hs' = hs \ {h}
  /\ IF h.mode = "null"
       THEN /\ adminRes' = Append(adminRes, [op |-> "update", s |-> h.id,
                                             result |-> "Schedule not found", at |-> now])
            /\ activeJobs' = activeJobs
       ELSE /\ adminRes' = Append(adminRes, [op |-> "update", s |-> h.id, result |-> "ok", at |-> now])
            /\ activeJobs' = activeJobs \cup createCronJob(h.id)
  /\ UNCHANGED <<dispVars, netVars, deviceStates, sim, preVars, sch, now, trig, deletes, startRes, blockedCalls>>

Scheduler ==
  \/ Settled /\ Tick
  \/ \E s \in 1..Len(sch) : Settled /\ ScheduleStartFind(s)
  \/ \E h \in hs : Settled /\ ScheduleStartDecide(h)
  \/ \E h \in hs : Settled /\ SendCommandCheck(h)
  \/ \E s \in 1..Len(sch) : Settled /\ ScheduleEndFind(s)
  \/ \E h \in hs : Settled /\ ScheduleEndOverrides(h)
  \/ \E h \in hs : Settled /\ ScheduleEndBranch(h)
  \/ \E h \in hs : Settled /\ CancelPreCleanSave(h)
  \/ \E h \in hs : Settled /\ CancelNext(h)
  \/ \E h \in hs : Settled /\ SendTurnOff(h)

\* ------------------------------------------------------------ compositions
\* POST /api/preclean: the n-th request at most, MANUAL carrying the speed 4
StartRequest(mode, n) ==
  /\ Len(pre) + Cardinality(StartsInFlight) < n
  /\ StartPreCleanFind(mode, IF mode = "MANUAL" THEN 4 ELSE 0)

\* the bodies POST /api/preclean accepts: a valid fanMode, and for MANUAL a
\* fanSpeed of 1..5; fanSpeed 0 stands for an absent one
RequestBodies ==
  {[fanMode |-> "MANUAL", fanSpeed |-> v] : v \in 1..5}
    \cup {[fanMode |-> m, fanSpeed |-> v] : m \in Modes \ {"MANUAL"}, v \in {0, 4}}

\* POST /api/preclean with a valid body
PostPreClean(body) ==
  /\ Len(startRes) + Cardinality({h \in hs : h.kind = "start"}) < MaxStarts
  /\ StartPreCleanFind(body.fanMode, body.fanSpeed)

\* the continuation of startPreClean
StartPreCleanSteps ==
  \/ \E h \in hs : Settled /\ StartPreCleanSave(h)
  \/ \E h \in hs : Settled /\ StartPreCleanSend(h)

\* the expiry of a pre-clean
Expiry ==
  \/ \E o \in preTimers : Settled /\ ExpiryTimer(o)
  \/ \E h \in hs : Settled /\ CompleteFindOthers(h)
  \/ \E h \in hs : Settled /\ CompleteMark(h)
  \/ \E h \in hs : Settled /\ CompleteReveal(h)
  \/ \E h \in hs : Settled /\ CompleteRestore(h)

\* The dispatcher on a healthy link: every publish is accepted, the device answers
\* before the acknowledgment timeout and after the dispatcher registered the
\* pending entry, and every acknowledgment is delivered once.
Delivery ==
  \/ \E c \in CmdIds : Publish(c, TRUE)
  \/ \E c \in CmdIds : PublishCallback(c)
  \/ \E c \in CmdIds : ArmTimeout(c)
  \/ \E msg \in cmdNet : cpc[msg].pc = "armed" /\ handleCommand(msg)
  \/ \E m \in ackNet : AckReceive(m, TRUE)
  \/ \E h \in ackH : AckFinish(h)

\* ---------------------------------------------------------- specifications
InitRest ==
  /\ cmds = <<>>
  /\ cpc = <<>>
  /\ log = <<>>
  /\ pendingCommands = {}
  /\ timers = {}
  /\ published = <<>>
  /\ lastPublished = 0
  /\ lastRestore = 0
  /\ cmdNet = {}
  /\ ackNet = {}
  /\ ackH = {}
  /\ ackSeq = 0
  /\ sim = [fanSpeed |-> 2, powerOn |-> TRUE]
  /\ pre = <<>>
  /\ preTimers = {}
  /\ hs = {}
  /\ now = 0
  /\ trig = {}
  /\ deletes = 0
  /\ startRes = <<>>
  /\ blockedCalls = {}
  /\ adminRes = <<>>

\* the device has sent sensor data: its DeviceState record exists
InitCommon ==
  /\ InitRest
  /\ deviceStates =
       [d \in DeviceIds |->
          IF d = Device
            THEN [NoDevice EXCEPT !.exists = TRUE, !.currentFanSpeed = 2, !.powerOn = TRUE]
            ELSE NoDevice]

\* the dispatcher on its own: no schedule exists
InitDispatch ==
  /\ InitCommon
  /\ sch = <<>>
  /\ activeJobs = {}

Dispatcher ==
  \/ \E c \in CmdIds, ok \in BOOLEAN : Publish(c, ok)
  \/ \E c \in CmdIds : PublishCallback(c)
  \/ \E c \in CmdIds : ArmTimeout(c)
  \/ \E c \in CmdIds, ok \in BOOLEAN : Timeout(c, ok)
  \/ \E c \in CmdIds : Reject(c)
  \/ \E m \in ackNet, last \in BOOLEAN : AckReceive(m, last)
  \/ \E h \in ackH : AckFinish(h)
  \/ \E msg \in cmdNet : handleCommand(msg)

NextDispatch ==
  \/ ManualCommand
  \/ UnknownAck
  \/ Dispatcher

\* nested overrides of a device without schedules
InitStack ==
  /\ InitCommon
  /\ sch = <<>>
  /\ activeJobs = {}

NextStack ==
  \/ \E mode \in {"MANUAL", "PRE_CLEAN"} : Settled /\ StartRequest(mode, MaxOverrides)
  \/ StartPreCleanSteps
  \/ Expiry
  \/ Delivery

SpecStack == InitStack /\ [][NextStack]_vars

\* the same with deletions, the handlers of the override service running one at a time
OneAtATime == Cardinality(hs') <= 1

NextNested ==
  \/ \E mode \in {"MANUAL", "PRE_CLEAN"} :
       Settled /\ StartRequest(mode, MaxOverrides) /\ OneAtATime
  \/ \E h \in hs : Settled /\ StartPreCleanSave(h)
  \/ \E h \in hs : Settled /\ StartPreCleanSend(h)
  \/ \E o \in preTimers : Settled /\ ExpiryTimer(o) /\ OneAtATime
  \/ \E o \in 1..Len(pre) : Settled /\ DeletePreCleanFind(o) /\ OneAtATime
  \/ \E h \in hs : Settled /\ DeletePreCleanSave(h)
  \/ \E h \in hs : Settled /\ CompleteFindOthers(h)
  \/ \E h \in hs : Settled /\ CompleteMark(h)
  \/ \E h \in hs : Settled /\ CompleteReveal(h)
  \/ \E h \in hs : Settled /\ CompleteRestore(h)
  \/ Delivery

SpecNested == InitStack /\ [][NextNested]_vars

\* overrides that expire, are deleted and are cancelled, the handlers interleaved
NextRace ==
  \/ \E mode \in {"MANUAL", "PRE_CLEAN"} : Settled /\ StartRequest(mode, MaxRaceOverrides)
  \/ StartPreCleanSteps
  \/ Expiry
  \/ \E o \in 1..Len(pre) : Settled /\ DeletePreCleanFind(o)
  \/ \E h \in hs : Settled /\ DeletePreCleanSave(h)
  \/ Settled /\ CancelRouteFind
  \/ \E h \in hs : Settled /\ CancelRouteList(h)
  \/ \E h \in hs : Settled /\ CancelRouteSave(h)
  \/ Delivery

SpecRace == InitStack /\ [][NextRace]_vars

\* overrides of every mode, for a device with or without a DeviceState record
InitModes ==
  /\ InitRest
  /\ deviceStates \in
       {[d \in DeviceIds |-> NoDevice],
        [d \in DeviceIds |->
           IF d = Device
             THEN [NoDevice EXCEPT !.exists = TRUE, !.currentFanSpeed = 2, !.powerOn = TRUE]
             ELSE NoDevice]}
  /\ sch = <<>>
  /\ activeJobs = {}

NextModes ==
  \/ \E body \in RequestBodies : Settled /\ PostPreClean(body)
  \/ StartPreCleanSteps
  \/ Expiry
  \/ Delivery

SpecModes == InitModes /\ [][NextModes]_vars

\* the schedules of a device and overrides that expire, the handlers of both
\* services running one at a time
NextRestore ==
  \/ \E mode \in {"OFF", "PRE_CLEAN"} :
       Settled /\ StartRequest(mode, MaxRestoreOverrides) /\ OneAtATime
  \/ StartPreCleanSteps
  \/ \E o \in preTimers : Settled /\ ExpiryTimer(o) /\ OneAtATime
  \/ \E h \in hs : Settled /\ CompleteFindOthers(h)
  \/ \E h \in hs : Settled /\ CompleteMark(h)
  \/ \E h \in hs : Settled /\ CompleteReveal(h)
  \/ \E h \in hs : Settled /\ CompleteRestore(h)
  \/ Settled /\ Tick
  \/ \E s \in 1..Len(sch) : Settled /\ ScheduleStartFind(s) /\ OneAtATime
  \/ \E h \in hs : Settled /\ ScheduleStartDecide(h)
  \/ \E h \in hs : Settled /\ SendCommandCheck(h)
  \/ \E s \in 1..Len(sch) : Settled /\ ScheduleEndFind(s) /\ OneAtATime
  \/ \E h \in hs : Settled /\ ScheduleEndOverrides(h)
  \/ \E h \in hs : Settled /\ ScheduleEndBranch(h)
  \/ \E h \in hs : Settled /\ CancelPreCleanSave(h)
  \/ \E h \in hs : Settled /\ CancelNext(h)
  \/ \E h \in hs : Settled /\ SendTurnOff(h)
  \/ Delivery

\* the schedules of a device and the start of overrides
InitSched ==
  /\ InitCommon
  /\ sch \in UNION {[1..n -> Schedules] : n \in 1..MaxSchedules}
  /\ activeJobs = UNION {createCronJob(s) : s \in 1..Len(sch)}

NextSched ==
  \/ \E mode \in {"PRE_CLEAN"} : Settled /\ StartRequest(mode, MaxBlockers)
  \/ StartPreCleanSteps
  \/ Scheduler
  \/ Delivery

SpecSched == InitSched /\ [][NextSched]_vars

SpecRestore == InitSched /\ [][NextRestore]_vars

SpecDispatch == InitDispatch /\ [][NextDispatch]_vars

\* the dispatcher with a command the device accepts (speed 4) or rejects (speed 6)
NextReject ==
  \/ \E value \in {4, 6} : SendSetFanSpeed(value)
  \/ Dispatcher

SpecReject == InitDispatch /\ [][NextReject]_vars

\* the schedules of a device without overrides, and their administration
InitAdmin ==
  /\ InitCommon
  /\ sch \in UNION {[1..n -> Schedules] : n \in 1..MaxSchedules}
  /\ activeJobs = UNION {createCronJob(s) : s \in 1..Len(sch)}

NextAdmin ==
  \/ Settled /\ Tick
  \/ \E s \in 1..Len(sch) : Settled /\ ScheduleStartFind(s)
  \/ \E h \in hs : Settled /\ ScheduleStartDecide(h)
  \/ \E h \in hs : Settled /\ SendCommandCheck(h)
  \/ \E s \in 1..Len(sch) : Settled /\ ScheduleEndFind(s)
  \/ \E h \in hs : Settled /\ ScheduleEndOverrides(h)
  \/ \E h \in hs : Settled /\ ScheduleEndBranch(h)
  \/ \E h \in hs : Settled /\ SendTurnOff(h)
  \/ \E s \in 1..Len(sch) : Settled /\ RemoveScheduleFind("remove", s, [fanSpeed |-> 0])
  \/ \E s \in 1..Len(sch) : Settled /\ RemoveScheduleFind("update", s, [fanSpeed |-> 4])
  \/ \E h \in hs : Settled /\ RemoveScheduleJobs(h)
  \/ \E h \in hs : Settled /\ RemoveScheduleState(h)
  \/ \E h \in hs : Settled /\ RemoveScheduleReturn(h)
  \/ \E h \in hs : Settled /\ UpdateScheduleReturn(h)
  \/ Delivery

SpecAdmin == InitAdmin /\ [][NextAdmin]_vars

\* three schedules of a device without overrides
InitEnd ==
  /\ InitCommon
  /\ sch \in UNION {[1..n -> Schedules] : n \in 1..MaxEndSchedules}
  /\ activeJobs = UNION {createCronJob(s) : s \in 1..Len(sch)}

NextEnd ==
  \/ Settled /\ Tick
  \/ \E s \in 1..Len(sch) : Settled /\ ScheduleStartFind(s)
  \/ \E h \in hs : Settled /\ ScheduleStartDecide(h)
  \/ \E h \in hs : Settled /\ SendCommandCheck(h)
  \/ \E s \in 1..Len(sch) : Settled /\ ScheduleEndFind(s)
  \/ \E h \in hs : Settled /\ ScheduleEndOverrides(h)
  \/ \E h \in hs : Settled /\ ScheduleEndBranch(h)
  \/ \E h \in hs : Settled /\ SendTurnOff(h)
  \/ Delivery

SpecEnd == InitEnd /\ [][NextEnd]_vars

\* the start of a schedule on a link that loses messages and refuses publishes
InitFail ==
  /\ InitCommon
  /\ sch \in UNION {[1..n -> Schedules] : n \in 1..MaxFailSchedules}
  /\ activeJobs = UNION {createCronJob(s) : s \in 1..Len(sch)}

NextFail ==
  \/ Settled /\ Tick
  \/ \E s \in 1..Len(sch) : Settled /\ ScheduleStartFind(s)
  \/ \E h \in hs : Settled /\ ScheduleStartDecide(h)
  \/ \E h \in hs : Settled /\ SendCommandCheck(h)
  \/ Dispatcher

SpecFail == InitFail /\ [][NextFail]_vars

\* two devices: the other one has an active override, a DeviceState record and
\* a pending command, and nothing is requested or due for it
InitDevices ==
  /\ cmds = <<>>
  /\ cpc = <<>>
  /\ log = <<>>
  /\ pendingCommands = {OtherCommandId}
  /\ timers = {OtherCommandId}
  /\ published = <<>>
  /\ lastPublished = 0
  /\ lastRestore = 0
  /\ cmdNet = {}
  /\ ackNet = {}
  /\ ackH = {}
  /\ ackSeq = 0
  /\ deviceStates =
       [d \in DeviceIds |->
          IF d = Device
            THEN [NoDevice EXCEPT !.exists = TRUE, !.currentFanSpeed = 2, !.powerOn = TRUE]
            ELSE [NoDevice EXCEPT !.exists = TRUE, !.currentFanSpeed = 5, !.powerOn = TRUE]]
  /\ sim = [fanSpeed |-> 2, powerOn |-> TRUE]
  /\ pre = <<[deviceId |-> "d2", fanMode |-> "PRE_CLEAN", fanSpeed |-> 0, status |-> "active",
              previousState |-> [fanSpeed |-> 1, powerOn |-> TRUE]]>>
  /\ preTimers = {}
  /\ hs = {}
  /\ now = 0
  /\ trig = {}
  /\ deletes = 0
  /\ startRes = <<>>
  /\ blockedCalls = {}
  /\ adminRes = <<>>
  /\ sch \in UNION {[1..n -> Schedules] : n \in 1..MaxDeviceSchedules}
  /\ activeJobs = UNION {createCronJob(s) : s \in 1..Len(sch)}

NextDevices ==
  \/ \E mode \in {"AUTO"} : Settled /\ StartRequest(mode, MaxDeviceDocs)
  \/ StartPreCleanSteps
  \/ Expiry
  \/ Settled /\ CancelRouteFind
  \/ \E h \in hs : Settled /\ CancelRouteList(h)
  \/ \E h \in hs : Settled /\ CancelRouteSave(h)
  \/ Scheduler
  \/ Delivery

SpecDevices == InitDevices /\ [][NextDevices]_vars

\* the simulator on its own, from the deviceState it is started with
InitSim ==
  /\ cmds = <<>>
  /\ cpc = <<>>
  /\ log = <<>>
  /\ pendingCommands = {}
  /\ timers = {}
  /\ published = <<>>
  /\ lastPublished = 0
  /\ lastRestore = 0
  /\ cmdNet = {}
  /\ ackNet = {}
  /\ ackH = {}
  /\ ackSeq = 0
  /\ deviceStates = [d \in DeviceIds |-> NoDevice]
  /\ sim = [fanSpeed |-> 0, powerOn |-> FALSE]
  /\ pre = <<>>
  /\ preTimers = {}
  /\ hs = {}
  /\ now = 0
  /\ trig = {}
  /\ deletes = 0
  /\ startRes = <<>>
  /\ blockedCalls = {}
  /\ adminRes = <<>>
  /\ sch = <<>>
  /\ activeJobs = {}

NextSim ==
  \/ \E body \in CommandBodies : ExternalCommand(body)
  \/ \E msg \in cmdNet : handleCommand(msg)

SpecSim == InitSim /\ [][NextSim]_vars

\* an override that is cancelled by the end of a schedule, by the cancel route or
\* by a deletion, with its expiry timer still set
InitCancel ==
  /\ InitCommon
  /\ sch \in UNION {[1..n -> Schedules] : n \in 1..MaxCancelSchedules}
  /\ activeJobs = UNION {createCronJob(s) : s \in 1..Len(sch)}

NextCancel ==
  \/ \E mode \in {"MANUAL", "PRE_CLEAN"} : Settled /\ StartRequest(mode, MaxCancelOverrides)
  \/ StartPreCleanSteps
  \/ Expiry
  \/ \E o \in 1..Len(pre) : Settled /\ DeletePreCleanFind(o)
  \/ \E h \in hs : Settled /\ DeletePreCleanSave(h)
  \/ Settled /\ CancelRouteFind
  \/ \E h \in hs : Settled /\ CancelRouteList(h)
  \/ \E h \in hs : Settled /\ CancelRouteSave(h)
  \/ Scheduler
  \/ Delivery

SpecCancel == InitCancel /\ [][NextCancel]_vars

\* ------------------------------------------------------------------ claims
NoAckFor(c) == log[c].deviceResponse = "none"

TargetState(c) == SimAfter(sim, cmds[c].action, cmds[c].value)

Terminal == {"completed", "cancelled", "deleted"}

\* the elements of a sequence
Range(q) == {q[i] : i \in 1..Len(q)}

\* C2: once every override of the device has ended (no schedule exists, so none
\* is inside its window at any of those moments) and every command was
\* published, the last restore command published puts the device in the state
\* of the first override's snapshot.
C2_BaselineRestored ==
  ( /\ Len(pre) > 0
    /\ \A o \in 1..Len(pre) : pre[o].status \in Terminal
    /\ hs = {}
    /\ \A c \in CmdIds : cpc[c].pc # "saved"
    /\ lastRestore # 0 )
  => TargetState(lastRestore) = pre[1].previousState

\* C3: completePreClean of an expiring override reads the other active overrides
\* of the device; when there are some, its restore command is the command of the
\* most recently started of them, and the expiring override is 'completed'.
C3_RevealMostRecent ==
  [][ /\ \A h \in hs' \ hs :
           (h.kind = "expire" /\ h.pc = "listed") => Range(h.others) = ActivePreCleans \ {h.id}
      /\ \A h \in hs \ hs' :
           (h.kind = "expire" /\ h.pc = "marked" /\ h.others # <<>>) =>
             LET top == CHOOSE o \in Range(h.others) : \A p \in Range(h.others) : p <= o
                 cmd == RevealCommand(pre[top])
             IN /\ Len(cmds') = Len(cmds) + 1
                /\ cmds'[Len(cmds')] =
                     [action |-> cmd.action, value |-> cmd.value, source |-> "restore"]
                /\ pre[h.id].status = "completed"
                /\ pre'[h.id].status = "completed"
    ]_vars

\* an override expired while two others were active; the restore command went out
C3_Witness ==
  \E o \in 1..Len(pre), c \in CmdIds :
    /\ pre[o].status = "completed"
    /\ Cardinality(ActivePreCleans) = 2
    /\ \E a \in ActivePreCleans, b \in ActivePreCleans : pre[a].fanMode # pre[b].fanMode
    /\ cmds[c].source = "restore"
    /\ published[c] > 0

\* ---------------------------------------------------------------- schedules
\* C4: no setFanSpeed command of source 'schedule' is published while an
\* override of the device has status 'active'.
C4_NoScheduleCommandDuringOverride ==
  [][ \A c \in CmdIds :
        (published'[c] > published[c] /\ cmds[c].source = "schedule"
           /\ cmds[c].action = "setFanSpeed")
          => ActivePreCleans = {}
    ]_vars

\* C5: sendCommand of source 'schedule' with an action other than turnOff reads
\* the active overrides when it is called; when there is one, the call returns
\* blocked and publishes nothing, creates no CommandLog entry and arms no timer.
C5_BlockedScheduleCommand ==
  [][ /\ \A h \in hs' \ hs : h.pc = "check" => h.blockers = ActivePreCleans
      /\ \A h \in hs \ hs' :
           (h.pc = "check" /\ h.blockers # {}) =>
             /\ <<h.kind, h.id>> \in blockedCalls'
             /\ cmds' = cmds /\ log' = log /\ cpc' = cpc
             /\ published' = published /\ cmdNet' = cmdNet
             /\ timers' = timers /\ pendingCommands' = pendingCommands
    ]_vars

\* a schedule command was blocked while an override was active
C5_Witness ==
  /\ blockedCalls # {}
  /\ ActivePreCleans # {}

\* C6: executeScheduleEnd reads the active overrides of the device; when there
\* are some, the run writes 'cancelled' into each of them, then issues one
\* turnOff command and ends, and it never takes the setFanSpeed branch of the
\* remaining schedules.
C6_ScheduleEndCancelsOverrides ==
  [][ /\ \A h \in hs' \ hs :
           (h.kind = "schEnd" /\ h.pc = "overrides") => Range(h.others) = ActivePreCleans
      /\ \A h \in hs \ hs' :
           (h.kind = "schEnd" /\ h.pc # "actives" /\ h.others # <<>>) =>
             IF h.pc = "turnoff"
               THEN /\ Len(cmds') = Len(cmds) + 1
                    /\ cmds'[Len(cmds')] =
                         [action |-> "turnOff", value |-> 0, source |-> "schedule"]
                    /\ \A o \in Range(h.others) : pre[o].status = "cancelled"
                    /\ \A g \in hs' : ~(g.kind = "schEnd" /\ g.id = h.id)
               ELSE /\ cmds' = cmds
                    /\ \E g \in hs' \ hs :
                         /\ g.kind = "schEnd" /\ g.id = h.id /\ g.others = h.others
                         /\ g.pc \in {"cancelfound", "cancelsaved", "turnoff"}
    ]_vars

\* a schedule ended while two overrides were active and another schedule was in
\* its window: both overrides are cancelled and the turnOff was published
C6_Witness ==
  \E c \in CmdIds :
    /\ cmds[c] = [action |-> "turnOff", value |-> 0, source |-> "schedule"]
    /\ published[c] > 0
    /\ Cardinality({o \in 1..Len(pre) : pre[o].status = "cancelled"}) = 2
    /\ getActiveSchedulesAtTime(now) # {}

DistinctSpeeds(S) == \A a \in S, b \in S : a # b => sch[a].fanSpeed # sch[b].fanSpeed

\* C7: executeScheduleStart reads the schedules inside their window; when
\* there are several, of distinct speeds, the run of the highest one goes on to
\* sendCommand with its own speed, and the run of any other one issues no
\* command, appends 'blocked' to that schedule's history and leaves it enabled.
C7_HighestScheduleWins ==
  [][ /\ \A h \in hs' \ hs :
           (h.kind = "schStart" /\ h.pc = "actives") =>
             h.actives = getActiveSchedulesAtTime(now)
      /\ \A h \in hs \ hs' :
           (h.kind = "schStart" /\ h.pc = "actives" /\ Cardinality(h.actives) > 1
              /\ DistinctSpeeds(h.actives)) =>
             IF \A t \in h.actives : sch[t].fanSpeed <= sch[h.id].fanSpeed
               THEN /\ sch' = sch
                    /\ \E g \in hs' \ hs :
                         /\ g.kind = "schStart" /\ g.id = h.id
                         /\ g.pc = "check" /\ g.speed = sch[h.id].fanSpeed
               ELSE /\ cmds' = cmds /\ published' = published
                    /\ \A g \in hs' : ~(g.kind = "schStart" /\ g.id = h.id)
                    /\ sch'[h.id].executionHistory =
                         Append(sch[h.id].executionHistory, "blocked")
                    /\ sch'[h.id].isActive
                    /\ \A t \in 1..Len(sch) : t # h.id => sch'[t] = sch[t]
    ]_vars

\* two schedules of distinct speeds started together: the lower one recorded
\* 'blocked', the command of the higher one was published
C7_Witness ==
  \E s \in 1..Len(sch), t \in 1..Len(sch), c \in CmdIds :
    /\ sch[s].fanSpeed < sch[t].fanSpeed
    /\ sch[s].executionHistory = <<"blocked">>
    /\ sch[s].isActive
    /\ sch[t].executionHistory = <<>>
    /\ cmds[c] = [action |-> "setFanSpeed", value |-> sch[t].fanSpeed, source |-> "schedule"]
    /\ published[c] > 0

\* ---------------------------------------------------------- acknowledgments
\* C8: an acknowledgment for a commandId whose audit entry is already
\* 'acknowledged' or 'timeout' changes neither the audit entry, nor the
\* DeviceState, nor pendingCommands.
C8_DuplicateAckNoChange ==
  [][ /\ \A h \in ackH' \ ackH : h.terminal => log' = log
      /\ \A h \in ackH \ ackH' :
           h.terminal => devState' = devState /\ pendingCommands' = pendingCommands
    ]_vars

\* C9: once a success acknowledgment of a command was received while its
\* current attempt was published and not yet timed out, the command is never
\* published again and its audit entry ends as 'acknowledged'.
C9_AckStopsRetries ==
  /\ [][\A c \in CmdIds : cpc[c].gotAck => PubCount(c)' = PubCount(c)]_vars
  /\ [](\A c \in CmdIds :
          (cpc[c].gotAck /\ Quiescent(c) /\ \A h \in ackH : h.commandId # c)
            => log[c].status = "acknowledged")

\* C10: every admitted sendCommand call reports a terminal outcome: once the
\* call can take no further step, its promise has been settled.
C10_OutcomeReported ==
  \A c \in CmdIds : Quiescent(c) => cpc[c].outcome # "none"

\* ------------------------------------------------------------ failure outcomes
\* the timeout callback took its give-up branch and the call returned
Exhausted(c) == cpc[c].pc = "done" /\ cpc[c].ok /\ cpc[c].fired = maxRetries + 1

\* C11: a sendCommand call whose retry budget is exhausted is not rejected: its
\* promise is fulfilled with a failure value.
C11_TimeoutNotRejected ==
  \A c \in CmdIds : Exhausted(c) => cpc[c].outcome # "rejected"

\* C12: when a publish of a command fails, on the first attempt or on a retry,
\* the publish callback writes 'failed' into the audit entry and the call is
\* rejected; from the failure on the command is not published again and has
\* neither an armed timeout nor a pendingCommands entry.
C12_PublishFailure ==
  /\ [][\A c \in CmdIds :
          /\ (~cpc[c].ok /\ cpc[c].pc = "pubcb" /\ cpc'[c].pc # "pubcb") =>
               log'[c].status = "failed" /\ log'[c].retryCount = cpc[c].attempt
          /\ ~cpc[c].ok => published'[c] = published[c] /\ cpc'[c].ok = cpc[c].ok
       ]_vars
  /\ [](\A c \in CmdIds :
          ~cpc[c].ok =>
            /\ c \notin timers
            /\ c \notin pendingCommands
            /\ cpc[c].pc \in {"pubcb", "failwrite", "done"}
            /\ cpc[c].pc = "done" => cpc[c].outcome = "rejected")

\* the publish of a retry failed and the call was rejected
C12_Witness ==
  \E c \in CmdIds :
    /\ ~cpc[c].ok
    /\ cpc[c].attempt >= 1
    /\ cpc[c].pc = "done"
    /\ cpc[c].outcome = "rejected"
    /\ log[c].status = "failed"

\* C13: once the retries of a command are exhausted its audit entry has status
\* 'timeout' and retryCount maxRetries, and the command is not published again.
C13_ExhaustedIsTimeout ==
  /\ [][\A c \in CmdIds : Exhausted(c) => published'[c] = published[c]]_vars
  /\ [](\A c \in CmdIds :
          Exhausted(c) => log[c].status = "timeout" /\ log[c].retryCount = maxRetries)

\* C14: a command that is never acknowledged and whose publishes all succeed is
\* published 3 times, each publish followed by one timeout, and is marked
\* 'timeout' by the third timeout.
C14_ThreePublishes ==
  \A c \in CmdIds :
    /\ (NoAckFor(c) /\ cpc[c].ok) => PubCount(c) <= 3
    /\ (NoAckFor(c) /\ log[c].status = "timeout") => PubCount(c) = 3 /\ cpc[c].fired = 3

\* ------------------------------------------------- schedules and overrides
\* C15: when sendCommand admits a turnOff of source 'schedule' (its CommandLog
\* entry is created), no override of the device has status 'active'.
C15_TurnOffCancelsOverrides ==
  [][ \A h \in hs \ hs' : h.pc = "turnoff" => ActivePreCleans' = {} ]_vars

\* C16: when the sendCommand of executeScheduleStart returns blocked, the
\* schedule's execution history gains an entry.
C16_BlockedByOverrideLogged ==
  [][ \A h \in hs \ hs' :
        (h.kind = "schStart" /\ h.pc = "check" /\ h.blockers # {}) =>
          Len(sch'[h.id].executionHistory) = Len(sch[h.id].executionHistory) + 1
    ]_vars

\* the highest fan speed among the schedules S
MaxSpeed(S) == CHOOSE v \in {sch[s].fanSpeed : s \in S} : \A s \in S : sch[s].fanSpeed <= v

\* C17: executeScheduleEnd reads the schedules inside their window and drops the
\* ending one; when its query finds no active override, it calls sendCommand
\* once: setFanSpeed with the highest speed of the remaining schedules when there
\* are some, turnOff when there are none; sendCommand, finding no active
\* override, creates exactly that one command, which is published once.
C17_ScheduleEndSwitch ==
  /\ [][ /\ \A h \in hs' \ hs :
              (h.kind = "schEnd" /\ h.pc = "actives") => h.actives = getActiveSchedulesAtTime(now)
         /\ \A h \in hs \ hs' :
              (h.kind = "schEnd" /\ h.pc = "actives") =>
                \E g \in hs' \ hs : g.kind = "schEnd" /\ g.id = h.id /\ g.pc = "overrides"
                                     /\ g.actives = h.actives \ {h.id} /\ cmds' = cmds
         /\ \A h \in hs \ hs' :
              (h.kind = "schEnd" /\ h.pc = "overrides" /\ h.others = <<>>) =>
                /\ cmds' = cmds
                /\ \E g \in hs' \ hs :
                     /\ g.kind = "schEnd" /\ g.id = h.id
                     /\ IF h.actives # {}
                          THEN g.pc = "check" /\ g.speed = MaxSpeed(h.actives)
                          ELSE g.pc = "turnoff"
         /\ \A h \in hs \ hs' :
              (h.kind = "schEnd" /\ h.pc \in {"check", "turnoff"} /\ h.others = <<>>
                 /\ h.blockers = {}) =>
                /\ cmds' = Append(cmds,
                              IF h.pc = "check"
                                THEN [action |-> "setFanSpeed", value |-> h.speed, source |-> "schedule"]
                                ELSE [action |-> "turnOff", value |-> 0, source |-> "schedule"])
                /\ \A g \in hs' : ~(g.kind = "schEnd" /\ g.id = h.id)
       ]_vars
  /\ [](\A c \in CmdIds : published[c] <= 1)

\* a schedule of speed 3 ended while schedules of speeds 3 and 5 were inside their
\* window: after the command of the start, a second setFanSpeed 5 was published
C17_Witness ==
  /\ now = 2
  /\ \E e \in 1..Len(sch), a \in 1..Len(sch), b \in 1..Len(sch) :
       /\ sch[e].endTime = 2 /\ sch[e].fanSpeed = 3
       /\ {a, b} \subseteq getActiveSchedulesAtTime(now)
       /\ sch[a].startTime = 1 /\ sch[b].startTime = 1
       /\ sch[a].fanSpeed = 3 /\ sch[b].fanSpeed = 5
  /\ \E c \in CmdIds, d \in CmdIds :
       /\ c < d
       /\ cmds[c] = [action |-> "setFanSpeed", value |-> 5, source |-> "schedule"]
       /\ cmds[d] = cmds[c]
       /\ published[c] = 1 /\ published[d] = 1

\* ------------------------------------------------- schedule administration
\* removeSchedule(s) returned without an error in an earlier minute
Removed(s) ==
  \E i \in 1..Len(adminRes) :
    /\ adminRes[i].op = "remove" /\ adminRes[i].s = s /\ adminRes[i].result = "ok"
    /\ adminRes[i].at < now

\* C18: once removeSchedule(s) returned, neither the start job nor the end job
\* of s runs in a later minute.
C18_RemovedScheduleSilent ==
  [][ \A h \in hs' \ hs :
        (h.kind \in {"schStart", "schEnd"} /\ h.pc = "actives") => ~Removed(h.id) ]_vars

\* the command the end of the window of s would issue now
Reconciliation(s) ==
  LET remaining == getActiveSchedulesAtTime(now) \ {s}
  IN IF remaining = {}
       THEN [action |-> "turnOff", value |-> 0, source |-> "schedule"]
       ELSE [action |-> "setFanSpeed", value |-> MaxSpeed(remaining), source |-> "schedule"]

\* C19: when removeSchedule returns for a schedule that is inside its window and
\* whose start command was the last one published, the last command issued is
\* that of the end-of-window reconciliation.
C19_RemoveReconciles ==
  [][ \A h \in hs \ hs' :
        ( /\ h.kind = "remove" /\ h.pc = "deleted"
          /\ now >= sch[h.id].startTime /\ now < sch[h.id].endTime
          /\ lastPublished # 0
          /\ cmds[lastPublished] =
               [action |-> "setFanSpeed", value |-> sch[h.id].fanSpeed, source |-> "schedule"] )
        => cmds[Len(cmds)] = Reconciliation(h.id)
    ]_vars

\* C20: updateSchedule on a stored schedule returns without an error; afterwards
\* the schedule is stored with the updated data and its jobs exist.
C20_UpdateSucceeds ==
  (Len(adminRes) > 0 /\ adminRes[1].op = "update") =>
    /\ adminRes[1].result = "ok"
    /\ ~sch[adminRes[1].s].deleted
    /\ sch[adminRes[1].s].fanSpeed = 4
    /\ createCronJob(adminRes[1].s) \subseteq activeJobs

\* ---------------------------------------------------- acknowledgment effects
\* C25: an acknowledgment whose commandId no sendCommand call issued changes
\* neither the audit entries nor the DeviceState.
C25_UnknownAckIgnored ==
  [][ /\ \A h \in ackH' \ ackH : h.commandId \notin CmdIds => log' = log
      /\ \A h \in ackH \ ackH' : h.commandId \notin CmdIds => devState' = devState
    ]_vars

\* C26: when the handling of a success acknowledgment of an issued command
\* ends, the DeviceState holds the fan speed and the power state the
\* acknowledgment reported.
C26_StateFromAck ==
  [][ \A h \in ackH \ ackH' :
        (h.status = "success" /\ h.commandId \in CmdIds) =>
          /\ devState'.exists
          /\ devState'.currentFanSpeed = h.fanSpeed
          /\ devState'.powerOn = h.powerOn
    ]_vars

\* the acknowledgment of setFanSpeed 4 was handled while the command was pending
C26_Witness ==
  \E c \in CmdIds :
    /\ cmds[c].action = "setFanSpeed" /\ cmds[c].value = 4
    /\ log[c].status = "acknowledged"
    /\ ackH = {} /\ ackNet = {}
    /\ c \notin pendingCommands /\ c \notin timers /\ cpc[c].pc = "armed"
    /\ devState.currentFanSpeed = 4 /\ devState.powerOn

\* ------------------------------------------------- the end of an override
\* C21: when POST /api/preclean/cancel returns after cancelling overrides, a
\* restore command has been dispatched.
C21_CancelRestores ==
  [][ \A h \in hs \ hs' :
        (h.kind = "cancel" /\ h.pc = "listed" /\ h.idx = Len(h.others) /\ h.idx > 0) =>
          \E c \in 1..Len(cmds') : cmds'[c].source = "restore"
    ]_vars

\* C22: when deletePreClean of an active override has run its restore path, the
\* record still exists with status 'cancelled' and one restore command was issued.
C22_DeleteActiveCancels ==
  [][ \A h \in hs \ hs' :
        ( /\ h.kind = "delete" /\ h.pc \in {"marked", "schedules"}
          /\ \A g \in hs' : ~(g.kind = "delete" /\ g.id = h.id) ) =>
          /\ pre'[h.id].status = "cancelled"
          /\ Len(cmds') = Len(cmds) + 1
          /\ cmds'[Len(cmds')].source = "restore"
    ]_vars

\* C30: every override is restored from at most once: there are never more
\* published restore commands than overrides that ended.
C30_RestoreAtMostOnce ==
  Cardinality({c \in CmdIds : cmds[c].source = "restore" /\ published[c] > 0})
    <= Cardinality({o \in 1..Len(pre) : pre[o].status \in Terminal})

\* C23: when completePreClean of an override that leaves no other override
\* active sends its command, that command has source 'restore', is recorded by
\* sendCommand without any block, and is setFanSpeed with the highest speed of
\* the schedules inside their window if there are some, otherwise the
\* override's previousState: setFanSpeed(previous speed) if it was powered on,
\* turnOff if not.
C23_RestoreTarget ==
  [][ \A h \in hs \ hs' :
        (h.kind \in {"expire", "delete"} /\ h.pc = "schedules" /\ ActivePreCleans = {}) =>
          LET S == getActiveSchedulesAtTime(now)
              prev == pre[h.id].previousState
              c == Len(cmds')
          IN /\ c = Len(cmds) + 1
             /\ cmds'[c].source = "restore"
             /\ log'[c].status = "pending"
             /\ blockedCalls' = blockedCalls
             /\ IF S # {}
                  THEN cmds'[c].action = "setFanSpeed" /\ cmds'[c].value = MaxSpeed(S)
                  ELSE IF prev.powerOn
                         THEN cmds'[c].action = "setFanSpeed" /\ cmds'[c].value = prev.fanSpeed
                         ELSE cmds'[c].action = "turnOff"
    ]_vars

\* the restore command of an override that ended inside two schedules of
\* distinct speeds was just recorded with the higher speed
C23_Witness ==
  /\ hs = {}
  /\ ActivePreCleans = {}
  /\ Cardinality(getActiveSchedulesAtTime(now)) = 2
  /\ DistinctSpeeds(getActiveSchedulesAtTime(now))
  /\ \E c \in CmdIds :
       /\ c = Len(cmds)
       /\ cpc[c].pc = "saved"
       /\ cmds[c].source = "restore"
       /\ cmds[c].value = MaxSpeed(getActiveSchedulesAtTime(now))

\* ------------------------------------------------ the start of an override
\* C24: startPreClean for a known device stores the override with status
\* 'active' and then creates exactly one command, of source 'preclean', given
\* by the mode alone: OFF turnOff with value 0, AUTO setFanSpeed 3, MANUAL
\* setFanSpeed with the speed of the request, PRE_CLEAN setFanSpeed 5.
C24_ModeTarget ==
  [][ /\ \A h \in hs \ hs' :
          (h.kind = "start" /\ h.pc = "found" /\ h.snap.exists) =>
            /\ Len(pre') = Len(pre) + 1
            /\ pre'[Len(pre')].status = "active"
            /\ pre'[Len(pre')].fanMode = h.mode
            /\ cmds' = cmds
      /\ \A h \in hs \ hs' :
          (h.kind = "start" /\ h.pc = "saved") =>
            /\ Len(cmds') = Len(cmds) + 1
            /\ cmds'[Len(cmds')].source = "preclean"
            /\ cmds'[Len(cmds')].action = IF h.mode = "OFF" THEN "turnOff" ELSE "setFanSpeed"
            /\ cmds'[Len(cmds')].value =
                 CASE h.mode = "OFF" -> 0
                   [] h.mode = "AUTO" -> 3
                   [] h.mode = "MANUAL" -> h.speed
                   [] h.mode = "PRE_CLEAN" -> 5
            /\ \A g \in hs' : ~(g.kind = "start" /\ g.pc = "saved" /\ g.id = h.id)
    ]_vars

\* a MANUAL request with fanSpeed 1 has just been answered
C24_Witness ==
  /\ Len(startRes) > 0
  /\ startRes[Len(startRes)] = [mode |-> "MANUAL", result |-> "ok"]
  /\ Len(cmds) = 1
  /\ cmds[1] = [action |-> "setFanSpeed", value |-> 1, source |-> "preclean"]
  /\ cpc[1].pc = "saved"
  /\ Len(pre) = 1 /\ pre[1].status = "active" /\ pre[1].fanMode = "MANUAL"

C28_ScheduleFailureRecorded ==
  \A c \in CmdIds :
    (cmds[c].source = "schedule" /\ cmds[c].action = "setFanSpeed"
       /\ cpc[c].pc = "done" /\ cpc[c].outcome = "rejected") =>
      \E s \in 1..Len(sch) : "failed" \in Range(sch[s].executionHistory)

\* --------------------------------------------------------- device isolation
\* C29: the handling of one device (the start, expiry and cancellation of its
\* overrides, the start and end of its schedules, its commands and
\* acknowledgments) changes no override, no DeviceState record and no pending
\* command of another device, and a schedule command is blocked only by active
\* overrides of its own device.
C29_DeviceIsolation ==
  [][ /\ \A o \in 1..Len(pre) : pre[o].deviceId # Device => pre'[o] = pre[o]
      /\ \A d \in DeviceIds \ {Device} : deviceStates'[d] = deviceStates[d]
      /\ \A c \in pendingCommands \ CmdIds : c \in pendingCommands' /\ (c \in timers => c \in timers')
      /\ blockedCalls' # blockedCalls =>
           \E h \in hs \ hs' :
             /\ h.blockers # {}
             /\ \A o \in h.blockers : pre[o].deviceId = Device
    ]_vars

\* a schedule command of the device was created and an override of the device
\* has ended, while the other device's override is active and its command pending
C29_Witness ==
  /\ \E c \in CmdIds : cmds[c].source = "schedule" /\ cmds[c].action = "setFanSpeed"
  /\ \E o \in 1..Len(pre) : pre[o].deviceId = Device /\ pre[o].status \in Terminal
  /\ \E o \in 1..Len(pre) : pre[o].deviceId # Device /\ pre[o].status = "active"
  /\ OtherCommandId \in pendingCommands
  /\ deviceStates["d2"].currentFanSpeed = 5

\* ---------------------------------------------------------- the simulator
\* C39: handleCommand of the simulator sends exactly one acknowledgment for a
\* received command, with the command's commandId and the deviceState after the
\* command; for setFanSpeed with a value outside 0..5 and for an unknown action
\* the acknowledgment has status 'error' and deviceState is unchanged, for any
\* other command it has status 'success'.
C39_OneAckPerCommand ==
  [][ \A msg \in cmdNet \ cmdNet' :
        LET rejected == \/ cmds[msg].action = "setFanSpeed"
                           /\ (cmds[msg].value < 0 \/ cmds[msg].value > 5)
                        \/ cmds[msg].action \notin {"setFanSpeed", "turnOff", "turnOn"}
        IN /\ Cardinality(ackNet' \ ackNet) = 1
           /\ \A m \in ackNet' \ ackNet :
                /\ m.commandId = msg
                /\ m.fanSpeed = sim'.fanSpeed /\ m.powerOn = sim'.powerOn
                /\ m.status = IF rejected THEN "error" ELSE "success"
           /\ rejected => sim' = sim
    ]_vars

\* setFanSpeed 6 was answered with 'error' while the device runs at speed 3
C39_Witness ==
  \E m \in ackNet :
    /\ m.status = "error"
    /\ cmds[m.commandId] = [action |-> "setFanSpeed", value |-> 6, source |-> "external"]
    /\ m.fanSpeed = 3 /\ m.powerOn
    /\ sim = [fanSpeed |-> 3, powerOn |-> TRUE]
    /\ cmdNet = {}

\* C40: in the simulator powerOn holds exactly when fanSpeed is greater than 0,
\* and fanSpeed is within 0..5.
C40_SimStateConsistent ==
  /\ sim.powerOn = (sim.fanSpeed > 0)
  /\ sim.fanSpeed \in 0..5

C31_NoMutualReveal ==
  \A h1, h2 \in hs :
    (/\ h1 # h2
     /\ h1.kind = "expire" /\ h2.kind = "expire"
     /\ h1.pc = "marked" /\ h2.pc = "marked"
     /\ h1.others # <<>> /\ h2.others # <<>>)
      => ~(h1.others[1] = h2.id /\ h2.others[1] = h1.id)

\* C32: when the second override is saved while the first one is the only override
\* and active, its previousState is the state the first one's command sets
\* (MANUAL requests carry the speed 4, PRE_CLEAN runs at 5, both powered on).
C32_SnapshotIsFirstTarget ==
  [][ (Len(pre) = 1 /\ Len(pre') = 2 /\ pre[1].status = "active")
        => pre'[2].previousState =
             [fanSpeed |-> IF pre[1].fanMode = "MANUAL" THEN 4 ELSE 5, powerOn |-> TRUE]
    ]_vars

\* C33: when completePreClean restores to a revealed MANUAL override, the restore
\* command sets the speed that override was started with (every MANUAL request
\* carries the speed 4).
C33_RevealManualSpeed ==
  [][ \A h \in hs \ hs' :
        (/\ h.kind = "expire" /\ h.pc = "marked" /\ h.others # <<>>
         /\ pre[h.others[1]].fanMode = "MANUAL"
         /\ Len(cmds') = Len(cmds) + 1)
          => cmds'[Len(cmds')] = [action |-> "setFanSpeed", value |-> 4, source |-> "restore"]
    ]_vars

\* C35: an override whose status is 'completed' or 'cancelled' keeps that status
\* (its record may still be removed), and the previousState of an override never
\* changes once the override exists.
C35_TerminalIsFinal ==
  [][ \A o \in 1..Len(pre) :
        /\ pre[o].status \in {"completed", "cancelled"}
             => pre'[o].status \in {pre[o].status, "deleted"}
        /\ pre'[o].previousState = pre[o].previousState
    ]_vars

\* C36: once the start command of a schedule has been acknowledged by the device
\* and the acknowledgment has been handled, the schedule has a lastExecuted and a
\* 'success' entry in its execution history.
C36_SuccessRecorded ==
  \A c \in CmdIds :
    (/\ cmds[c].source = "schedule"
     /\ log[c].status = "acknowledged"
     /\ \A h \in ackH : h.commandId # c
     /\ hs = {})
      => \E s \in 1..Len(sch) :
           /\ sch[s].fanSpeed = cmds[c].value
           /\ sch[s].lastExecuted > 0
           /\ "success" \in Range(sch[s].executionHistory)

\* C34: when the expiry timer of an override fires and the override is no longer
\* active (it was cancelled by the end of a schedule, by the cancel route or by a
\* deletion), the callback starts no completion, creates and publishes no command
\* and changes no record.
C34_LateTimerIsInert ==
  [][ \A o \in preTimers \ preTimers' :
        pre[o].status # "active"
          => /\ hs' = hs
             /\ cmds' = cmds /\ log' = log /\ published' = published
             /\ pre' = pre /\ sch' = sch /\ deviceStates' = deviceStates
    ]_vars

\* the timer of a cancelled override has fired and nothing is left running
C34_Witness ==
  /\ Len(pre) = 1 /\ pre[1].status = "cancelled"
  /\ Len(startRes) = 1 /\ startRes[1].result = "ok"
  /\ preTimers = {} /\ hs = {}
  /\ \A c \in CmdIds : cmds[c].source # "restore"

\* the start jobs of the schedules a and b ran in the current minute and returned
C37_StartsDone(a, b) ==
  /\ now = sch[a].startTime
  /\ \A j \in trig : j.at = "start" => j.s \notin {a, b}
  /\ \A h \in hs : h.kind = "schStart" => h.id \notin {a, b}

\* two schedules of equal speed that start in the same minute and are the only
\* ones inside their window then
C37_Tie(a, b) ==
  /\ a # b
  /\ sch[a].startTime = sch[b].startTime
  /\ sch[a].fanSpeed = sch[b].fanSpeed
  /\ getActiveSchedulesAtTime(sch[a].startTime) = {a, b}

\* C37: of two schedules of equal speed whose start jobs ran in the same minute,
\* exactly one recorded 'blocked' and the other created its start command; when
\* they are the only schedules, that command is the only one.
C37_OneWinnerOnTie ==
  \A a, b \in 1..Len(sch) :
    (C37_Tie(a, b) /\ C37_StartsDone(a, b))
      => /\ Cardinality({s \in {a, b} : "blocked" \in Range(sch[s].executionHistory)}) = 1
         /\ \E c \in CmdIds :
              cmds[c] = [action |-> "setFanSpeed", value |-> sch[a].fanSpeed, source |-> "schedule"]
         /\ Len(sch) = 2 => Len(cmds) = 1

C37_Witness ==
  /\ Len(sch) = 2 /\ C37_Tie(1, 2) /\ C37_StartsDone(1, 2)
  /\ sch[1].executionHistory = <<>>
  /\ sch[2].executionHistory = <<"blocked">>
  /\ Len(cmds) = 1 /\ Len(published) = 1

====
